---- MODULE Spec2Model ----
(***************************************************************************)
(* The chart-rebuild operations of JsdWindow (src/jsdview.py):             *)
(* update_area_chart, update_pie_chart_dock, update_spider_chart and       *)
(* update_jsd_timeline_plot, as a state machine over the derived           *)
(* structures they own (the chart layouts, the polar chart, the time-line  *)
(* chart and the model's color mapping).                                   *)
(*                                                                         *)
(* Numbers that the code computes as floats are exact fractions            *)
(* <<num, den>> in lowest terms; <<0, 0>> is NaN and <<1, 0>> is inf.      *)
(* A time in milliseconds since the epoch is <<day, ms>>: the day and the  *)
(* milliseconds into it (day * 86400000 + ms).                             *)
(***************************************************************************)
EXTENDS Integers, Sequences, FiniteSets

VARIABLES
    sheet_dict,               \* the sheet_dict handed to update_area_chart / update_pie_chart_dock
    category,                 \* category_combobox.currentText()
    spider_plot_values_dict,  \* the mapping handed to update_spider_chart
    jsd_model,                \* the model handed to update_jsd_timeline_plot
    area_chart_layout,        \* area_chart_widget.layout(): the area chart panels
    pie_chart_layout,         \* pie_chart_layout: one row layout per source
    spider_chart,             \* self.spider_chart: axes, series, title
    jsd_timeline_chart,       \* self.jsd_timeline_chart: series and axes
    color_mapping,            \* jsd_model's color mapping
    stale_mapping,            \* the entries for another number of comparisons that the most
                              \* recent update_jsd_timeline_plot found in the color mapping
    call,                     \* the most recent rebuild call: its name, arguments and outcome
    again,                    \* TRUE iff that call repeated the call before it (same name, same arguments)
    dataselectiongroupbox,    \* JsdDataSelectionGroupBox: form_layout, file_comboboxes, file_checkboxes
    groupbox_call,            \* the most recent call on the group box: its argument, events and outcome
    sources_loaded            \* the data sources loaded: the constructor's and those of add_data_source

vars == <<sheet_dict, category, spider_plot_values_dict, jsd_model, area_chart_layout,
          pie_chart_layout, spider_chart, jsd_timeline_chart, color_mapping, stale_mapping,
          call, again, dataselectiongroupbox, groupbox_call, sources_loaded>>

\* the group box, the record of the calls on it and the data sources loaded
groupbox == <<dataselectiongroupbox, groupbox_call, sources_loaded>>

(***************************************************************************)
(* Bounds of the model.                                                    *)
(***************************************************************************)
MaxRows == 2        \* rows of a source table
MaxPairs == 2       \* comparison pairs handed to the spider chart
MaxCats == 2        \* categories of the spider chart
MaxModelCols == 2   \* comparison columns of the JSD table model
MaxModelRows == 2   \* rows of a JSD table model column

Values == {0, 1}            \* the values of a table cell
JsdValues == {0, 1}         \* the JSD scalars
Categories == <<"c1", "c2">> \* the items of category_combobox
DataColumns == <<"A", "B">>  \* data_columns of every sheet

(***************************************************************************)
(* Numbers.                                                                *)
(***************************************************************************)
RECURSIVE GCD(_, _)
GCD(a, b) == IF b = 0 THEN a ELSE GCD(b, a % b)

NaN == <<0, 0>>
Inf == <<1, 0>>

\* n / d as Python's float division of two non-negative numbers (pandas: x/0 is inf, 0/0 is NaN)
Div(n, d) ==
    IF d = 0 THEN (IF n = 0 THEN NaN ELSE Inf)
    ELSE LET g == GCD(n, d) IN <<n \div g, d \div g>>

\* k * f for an integer k > 0
Times(k, f) ==
    IF f[2] = 0 THEN f ELSE Div(k * f[1], f[2])

Num(n) == <<n, 1>>

RECURSIVE SumTo(_, _, _)
\* row[cols[1]] + ... + row[cols[k]]
SumTo(row, cols, k) == IF k = 0 THEN 0 ELSE SumTo(row, cols, k - 1) + row[cols[k]]

\* the position of column col in cols
ColPos(cols, col) == CHOOSE k \in 1..Len(cols) : cols[k] = col

\* the elements of s that satisfy Keep, in order
RECURSIVE SelectNames(_, _, _)
SelectNames(s, keep, k) ==
    IF k = 0 THEN <<>>
    ELSE IF s[k] \in keep THEN Append(SelectNames(s, keep, k - 1), s[k])
    ELSE SelectNames(s, keep, k - 1)

(***************************************************************************)
(* Source tables.  A sheet has a data frame df (rows in date order, each a *)
(* date in days since the epoch and one value per data column) and its     *)
(* data_columns.                                                           *)
(***************************************************************************)
\* the date of row i: the first of consecutive 31-day periods from 2020-01-01
RowDate(i) == 18262 + 31 * (i - 1)

RowsOf(n) == { [i \in 1..n |-> [date |-> RowDate(i), vals |-> v[i]]] :
                 v \in [1..n -> [{DataColumns[k] : k \in 1..Len(DataColumns)} -> Values]] }

Sheets == { [df |-> d, data_columns |-> DataColumns] : d \in UNION { RowsOf(n) : n \in 0..MaxRows } }

\* A sheet_dict is a sequence of (index, sheets) items in the dict's order; sheets maps the
\* categories the file has to their sheets.  The shapes loaded here: one file with the first
\* category, one file with both categories, two files with the first category.
OneFile(s) == <<[index |-> 0, sheets |-> [c \in {"c1"} |-> s]]>>

OneFileTwoCategories(s, t) ==
    <<[index |-> 0, sheets |-> [c \in {"c1", "c2"} |-> IF c = "c1" THEN s ELSE t]]>>

TwoFiles(s, t) ==
    <<[index |-> 0, sheets |-> [c \in {"c1"} |-> s]], [index |-> 1, sheets |-> [c \in {"c1"} |-> t]]>>

IsSheetDict(sd) ==
    \/ sd = <<>>
    \/ \E s \in Sheets : sd = OneFile(s)
    \/ \E s \in Sheets, t \in Sheets : sd = OneFileTwoCategories(s, t)
    \/ \E s \in Sheets, t \in Sheets : sd = TwoFiles(s, t)

\* The tables of two monthly rows whose cells are percentages of the scenario
\* [{A: 40, B: 60}, {A: 0, B: 100}], loaded as the one file's sheet of the first category.
ScenarioValues == {0, 40, 60, 100}

IsScenarioSheetDict(sd) ==
    \E v \in [1..2 -> [{DataColumns[k] : k \in 1..Len(DataColumns)} -> ScenarioValues]] :
        sd = OneFile([ df |-> [i \in 1..2 |-> [date |-> RowDate(i), vals |-> v[i]]],
                       data_columns |-> DataColumns ])

\* file_comboboxes[index].currentData() / currentText(): combobox index shows file index
FileData(index) == <<"file", index>>

(***************************************************************************)
(* clear_layout: takes every item out of the layout.                       *)
(***************************************************************************)
\* a variant that leaves the layout's items in place
clear_layout_keep(layout) == layout

clear_layout(layout) == <<>>

(***************************************************************************)
(* update_area_chart                                                       *)
(***************************************************************************)
\* QDateTime(numpy_datetime64_to_qdate(date), QTime()).toMSecsSinceEpoch(): midnight of the day
toMSecsSinceEpoch(date) == <<date, 0>>

\* QDateTime.addMSecs(1), toMSecsSinceEpoch() + 1: one millisecond later (never past the day here)
addMSecs(t, n) == <<t[1], t[2] + n>>

\* t <= u for two times
TimeLeq(t, u) == t[1] < u[1] \/ (t[1] = u[1] /\ t[2] <= u[2])

\* total_counts: the row's sum over the data columns
total_counts(df, cols, i) == SumTo(df[i].vals, cols, Len(cols))

\* a variant without the running sum: the column's own percent of the row
cumulative_percents_own(df, cols, i, col) ==
    Times(100, Div(df[i].vals[col], total_counts(df, cols, i)))

\* cumulative_percents.iloc[i][col] = 100.0 * cumsum(axis=1).div(total_counts)
cumulative_percents(df, cols, i, col) ==
    Times(100, Div(SumTo(df[i].vals, cols, ColPos(cols, col)), total_counts(df, cols, i)))

\* a variant that skips only the columns with no data in any row
SkipColumn_no_data(df, col) == \A i \in 1..Len(df) : df[i].vals[col] = 0

\* the test of line 638: the column's value at the last row is 0
SkipColumn(df, col) == df[Len(df)].vals[col] = 0

\* the columns that get a series, in data_columns order
RetainedColumns(df, cols) ==
    SelectNames(cols, { cols[k] : k \in { j \in 1..Len(cols) : ~SkipColumn(df, cols[j]) } }, Len(cols))

\* a variant that never synthesizes the second point of a single-row table
SeriesPoints_no_second_point(df, cols, col) ==
    [i \in 1..Len(df) |-> <<toMSecsSinceEpoch(df[i].date), cumulative_percents(df, cols, i, col)>>]

\* the points of the column's upper series
SeriesPoints(df, cols, col) ==
    LET points == [i \in 1..Len(df) |->
                     <<toMSecsSinceEpoch(df[i].date), cumulative_percents(df, cols, i, col)>>]
    IN  IF Len(df) = 1
        THEN Append(points, <<addMSecs(toMSecsSinceEpoch(df[1].date), 1),
                              cumulative_percents(df, cols, 1, col)>>)
        ELSE points

\* axis_x.setRange(dates[0], dates[-1] if len(dates) > 1 else dates[0].addMSecs(1))
AreaAxisX(df) ==
    <<toMSecsSinceEpoch(df[1].date),
      IF Len(df) > 1 THEN toMSecsSinceEpoch(df[Len(df)].date)
      ELSE addMSecs(toMSecsSinceEpoch(df[1].date), 1)>>

\* the chart built for one source (lines 619-676)
AreaChart(index, cat, sheet_data) ==
    LET df == sheet_data.df
        cols == sheet_data.data_columns
        kept == RetainedColumns(df, cols)
    IN  [ title  |-> <<FileData(index), cat>>,
          series |-> [k \in 1..Len(kept) |->
                        [ name   |-> kept[k],
                          points |-> SeriesPoints(df, cols, kept[k]),
                          lower  |-> IF k = 1 THEN "None" ELSE kept[k - 1] ]],
          axis_x |-> AreaAxisX(df),
          axis_y |-> <<0, 100>> ]

\* the exception the loop body raises for one source, or "None"
AreaError(cat, sheets) ==
    IF cat \notin DOMAIN sheets THEN "KeyError"          \* sheets[category]
    ELSE IF Len(sheets[cat].df) = 0 THEN "IndexError"     \* df[col].iloc[-1], dates[0]
    ELSE "None"

RECURSIVE AreaLoop(_, _, _, _)
\* the loop of lines 617-679 from item k on: the layout and the outcome it ends with
AreaLoop(sd, cat, k, layout) ==
    IF k > Len(sd) THEN [layout |-> layout, ret |-> "True"]
    ELSE LET e == AreaError(cat, sd[k].sheets)
         IN  IF e # "None" THEN [layout |-> layout, ret |-> e]
             ELSE AreaLoop(sd, cat, k + 1,
                           Append(layout, AreaChart(sd[k].index, cat, sd[k].sheets[cat])))

update_area_chart(sd, cat, layout) == AreaLoop(sd, cat, 1, clear_layout(layout))

\* a variant in which cumsum(axis=1) writes the running sums into df
frame_after_cumsum_in_place(df, cols) ==
    [i \in 1..Len(df) |->
        [df[i] EXCEPT !.vals = [c \in DOMAIN df[i].vals |-> SumTo(df[i].vals, cols, ColPos(cols, c))]]]

\* df after lines 629-630: df[cols_to_use] selects a new frame, and sum, cumsum and div each
\* return a new one, so df keeps its rows
frame_after_cumsum(df, cols) == df

\* sheet_dict after update_area_chart: the loop reaches item k if no earlier item raised, and
\* runs lines 629-630 on the item's sheet of the category
sheet_dict_after_area(sd, cat) ==
    [k \in 1..Len(sd) |->
        IF /\ \A j \in 1..(k - 1) : AreaError(cat, sd[j].sheets) = "None"
           /\ cat \in DOMAIN sd[k].sheets
        THEN [sd[k] EXCEPT !.sheets[cat].df =
                               frame_after_cumsum(@, sd[k].sheets[cat].data_columns)]
        ELSE sd[k]]

(***************************************************************************)
(* update_pie_chart_dock                                                   *)
(***************************************************************************)
\* a variant that keeps the slices of value 0
SliceKept_zero(value) == value >= 0

\* the test of line 498: the slice is appended
SliceKept(value) == value > 0

\* the slices of one category's pie series: df[col].iloc[-1] of the kept columns
PieSlices(sheet_data) ==
    LET df == sheet_data.df
        cols == sheet_data.data_columns
        kept == SelectNames(cols, { cols[k] : k \in { j \in 1..Len(cols) :
                                      SliceKept(df[Len(df)].vals[cols[j]]) } }, Len(cols))
    IN  [k \in 1..Len(kept) |-> <<kept[k], df[Len(df)].vals[kept[k]]>>]

\* the test of line 502: a chart is created for the series
ChartCreated(slices) == Len(slices) > 0

PieError(cat, sheets) ==
    IF cat \notin DOMAIN sheets THEN "KeyError"                                       \* sheets[category]
    ELSE IF Len(sheets[cat].df) = 0 /\ Len(sheets[cat].data_columns) > 0 THEN "IndexError"  \* iloc[-1]
    ELSE "None"

RECURSIVE PieRow(_, _, _, _)
\* the loop of lines 490-509 from category k on: the row's charts and the outcome
PieRow(cats, sheets, k, charts) ==
    IF k > Len(cats) THEN [charts |-> charts, ret |-> "None"]
    ELSE LET e == PieError(cats[k], sheets)
         IN  IF e # "None" THEN [charts |-> charts, ret |-> e]
             ELSE LET slices == PieSlices(sheets[cats[k]])
                  IN  PieRow(cats, sheets, k + 1,
                             IF ChartCreated(slices)
                             THEN Append(charts, [title |-> cats[k], slices |-> slices])
                             ELSE charts)

RECURSIVE PieLoop(_, _, _, _)
\* the loop of lines 481-511 from item k on
PieLoop(sd, cats, k, layout) ==
    IF k > Len(sd) THEN [layout |-> layout, ret |-> "None"]
    ELSE LET row == PieRow(cats, sd[k].sheets, 1, <<>>)
         IN  IF row.ret # "None" THEN [layout |-> layout, ret |-> row.ret]
             ELSE PieLoop(sd, cats, k + 1,
                          Append(layout, [label |-> FileData(sd[k].index), charts |-> row.charts]))

update_pie_chart_dock(sd, cats, layout) == PieLoop(sd, cats, 1, clear_layout(layout))

(***************************************************************************)
(* update_spider_chart.  The mapping is a sequence of (index_pair, values) *)
(* items in the dict's order; values is a dict too: its keys in order and  *)
(* the scalar of each key.                                                 *)
(***************************************************************************)
CategoryPool == <<"c1", "c2", "c3", "c4">>

\* the index pairs of the comparisons, in the order the mapping lists them
IndexPairs == <<(<<0, 1>>), (<<0, 2>>), (<<1, 2>>), (<<0, 3>>)>>

Reverse(s) == [i \in 1..Len(s) |-> s[Len(s) + 1 - i]]

\* the first n category names, and the set of them
CategoryNames(n) == SubSeq(CategoryPool, 1, n)
CategorySet(n) == { CategoryPool[i] : i \in 1..n }

\* the mapping of k pairs over n categories with scalars v: the first pair lists the categories
\* in the supplied order, a later pair p in that order or, if rev[p], in the reverse order
SpiderDict(k, n, v, rev) ==
    [p \in 1..k |-> [ index_pair |-> IndexPairs[p],
                      values |-> [ keys |-> IF p > 1 /\ rev[p] THEN Reverse(CategoryNames(n))
                                            ELSE CategoryNames(n),
                                   val  |-> v[p] ] ]]

IsSpiderDict(d) ==
    \E k \in 0..MaxPairs, n \in 1..MaxCats :
        \E v \in [1..k -> [CategorySet(n) -> JsdValues]], rev \in [2..k -> BOOLEAN] :
            /\ k = 0 => n = 1
            /\ d = SpiderDict(k, n, v, rev)

\* max(value for series_values in dict.values() for value in series_values.values())
MaxOf(S) == CHOOSE m \in S : \A x \in S : x <= m

AllValues(d) == { d[p].values.val[c] : p \in 1..Len(d), c \in DOMAIN d[1].values.val }

spider_max_value(d) == MaxOf(AllValues(d))

\* labels = list(first_series_values.keys())
spider_labels(d) == d[1].values.keys

\* angles[i] = step_size * i with step_size = 360 / len(labels); i counts from 0
spider_angle(n, i) == Times(i, Div(360, n))

\* a variant that closes the polygon with the last category's value
closing_value_last(points) == points[Len(points)][2]

\* the value appended at angle 360 (lines 567-568)
closing_value(points) == points[1][2]

\* a variant that leaves the polygon open
spider_points_open(labels, spider_plot_values) ==
    [i \in 1..Len(labels) |-> <<spider_angle(Len(labels), i - 1), spider_plot_values.val[labels[i]]>>]

\* a variant that reads a pair's values in the order the pair's own mapping lists them
spider_points_by_position(labels, spider_plot_values) ==
    LET points == [i \in 1..Len(labels) |->
                     <<spider_angle(Len(labels), i - 1),
                       spider_plot_values.val[spider_plot_values.keys[i]]>>]
    IN  Append(points, <<Num(360), closing_value(points)>>)

\* the series built for one pair (lines 560-568)
spider_points(labels, spider_plot_values) ==
    LET points == [i \in 1..Len(labels) |->
                     <<spider_angle(Len(labels), i - 1), spider_plot_values.val[labels[i]]>>]
    IN  Append(points, <<Num(360), closing_value(points)>>)

spider_title(d) ==
    IF Len(d) = 1 THEN <<"Comparison", FileData(d[1].index_pair[1]), FileData(d[1].index_pair[2])>>
    ELSE <<"JSD per category">>

\* a variant that draws the first pair's polygon only
spider_rebuild_first_pair(d) ==
    LET labels == spider_labels(d)
    IN  [ angular |-> <<[ labels |-> [i \in 1..Len(labels) |->
                                        <<labels[i], spider_angle(Len(labels), i - 1)>>],
                          range  |-> <<0, 360>> ]>>,
          radial  |-> <<[ range |-> <<0, spider_max_value(d)>> ]>>,
          title   |-> spider_title(d),
          series  |-> <<[ name   |-> <<FileData(d[1].index_pair[1]), FileData(d[1].index_pair[2])>>,
                          points |-> spider_points(labels, d[1].values),
                          axes   |-> <<"angular", "radial">> ]>> ]

\* lines 528-581: the chart rebuilt from the mapping
spider_rebuild(d) ==
    LET labels == spider_labels(d)
    IN  [ angular |-> <<[ labels |-> [i \in 1..Len(labels) |->
                                        <<labels[i], spider_angle(Len(labels), i - 1)>>],
                          range  |-> <<0, 360>> ]>>,
          radial  |-> <<[ range |-> <<0, spider_max_value(d)>> ]>>,
          title   |-> spider_title(d),
          series  |-> [p \in 1..Len(d) |->
                         [ name   |-> <<FileData(d[p].index_pair[1]), FileData(d[p].index_pair[2])>>,
                           points |-> spider_points(labels, d[p].values),
                           axes   |-> <<"angular", "radial">> ]] ]

\* the early exit of lines 525-526
spider_no_data(d) == Len(d) = 0

\* a variant without the early exit: next(iter({}.values())) raises after the chart was cleared
update_spider_chart_no_exit(d, chart) ==
    IF spider_no_data(d)
    THEN [chart |-> [angular |-> <<>>, radial |-> <<>>, title |-> chart.title, series |-> <<>>],
          ret |-> "StopIteration"]
    ELSE [chart |-> spider_rebuild(d), ret |-> "True"]

update_spider_chart(d, chart) ==
    IF spider_no_data(d) THEN [chart |-> chart, ret |-> "False"]
    ELSE [chart |-> spider_rebuild(d), ret |-> "True"]

\* QPolarChart(): no axes, no series, no title
EmptyPolarChart == [angular |-> <<>>, radial |-> <<>>, title |-> <<>>, series |-> <<>>]

(***************************************************************************)
(* update_jsd_timeline_plot.  The JSD table model has one column_info per  *)
(* comparison and two input_data columns (dates, values) for each.         *)
(***************************************************************************)
\* a date of the model: convertible (a day) or not
Date(day) == [ok |-> TRUE, day |-> day]
BadDate == [ok |-> FALSE, day |-> 0]

\* the value the model holds at row i of comparison c
JsdValueAt(c, i) == (c + i) % 2

\* the date columns of r rows: ascending dates from row offset o (a comparison's dates start
\* with the first comparison's or two periods later), any of them unconvertible
DateColumns(r) ==
    { [i \in 1..r |-> IF bad[i] THEN BadDate ELSE Date(RowDate(i + o))] :
        bad \in [1..r -> BOOLEAN], o \in IF r = 0 THEN {0} ELSE {0, 2} }

AllDateColumns == UNION { DateColumns(r) : r \in 0..MaxModelRows }

\* the model of k comparisons whose date columns are dates[1..k]
JsdModel(k, dates) ==
    [ column_infos |-> [c \in 1..k |-> [file1 |-> FileData(IndexPairs[c][1]),
                                        file2 |-> FileData(IndexPairs[c][2]),
                                        category |-> "c1"]],
      input_data   |-> [j \in 1..(2 * k) |->
                          IF j % 2 = 1 THEN dates[(j + 1) \div 2]
                          ELSE [i \in 1..Len(dates[j \div 2]) |-> JsdValueAt(j \div 2, i)]] ]

IsJsdModel(m) ==
    \E k \in 0..MaxModelCols : \E dates \in [1..k -> AllDateColumns] : m = JsdModel(k, dates)

EmptyModel == [column_infos |-> <<>>, input_data |-> <<>>]

\* jsd_model.rowCount(jsd_model.createIndex(0, col)): the rows of grid column col (0-based)
rowCount(model, col) == Len(model.input_data[col + 1])

\* jsd_model.clear_color_mapping()
clear_color_mapping(mapping) == <<>>

\* jsd_model.add_color_mapping(color, rect)
add_color_mapping(mapping, color, rect) == Append(mapping, [color |-> color, rect |-> rect])

\* convert_date_to_milliseconds: None for a date that cannot be converted
convert_date_to_milliseconds(d) == IF d.ok THEN <<(<<d.day, 0>>)>> ELSE <<>>

\* series.pen().color().name() once the chart holds the series: the theme's color for its place
series_color(c) == <<"theme color", c % 5>>

\* a variant that covers the date column alone
QRect_one_column(x, y, width, height) == [x |-> x, y |-> y, width |-> 1, height |-> height]

\* QRect(col, 0, 2, row_count) of line 720: the grid columns x .. x + width - 1
QRect(x, y, width, height) == [x |-> x, y |-> y, width |-> width, height |-> height]

\* the points appended to the series of comparison c (0-based), lines 710-713
timeline_points(model, c) ==
    LET col == c * 2
        rows == { i \in 1..rowCount(model, col) :
                    convert_date_to_milliseconds(model.input_data[col + 1][i]) # <<>> }
        RECURSIVE Pts(_)
        Pts(i) == IF i = 0 THEN <<>>
                  ELSE IF i \in rows
                  THEN Append(Pts(i - 1), <<convert_date_to_milliseconds(model.input_data[col + 1][i])[1],
                                            model.input_data[col + 2][i]>>)
                  ELSE Pts(i - 1)
    IN  Pts(rowCount(model, col))

\* the time points that lines 714-715 compare with date_min: row 0 of each column, if convertible
date_min_candidates(model) ==
    { convert_date_to_milliseconds(model.input_data[2 * c + 1][1])[1] :
        c \in { b \in 0..(Len(model.column_infos) - 1) :
                  /\ rowCount(model, 2 * b) > 0
                  /\ convert_date_to_milliseconds(model.input_data[2 * b + 1][1]) # <<>> } }

\* the time points that lines 716-717 compare with date_max: the last row of each column
date_max_candidates(model) ==
    { convert_date_to_milliseconds(model.input_data[2 * c + 1][rowCount(model, 2 * c)])[1] :
        c \in { b \in 0..(Len(model.column_infos) - 1) :
                  /\ rowCount(model, 2 * b) > 0
                  /\ convert_date_to_milliseconds(
                         model.input_data[2 * b + 1][rowCount(model, 2 * b)]) # <<>> } }

MinTime(S) == CHOOSE m \in S : \A x \in S : TimeLeq(m, x)
MaxTime(S) == CHOOSE m \in S : \A x \in S : TimeLeq(x, m)

\* lines 695-742: the chart and the color mapping after the call, and its outcome.
\* QDateTime.fromMSecsSinceEpoch(math.inf) raises: the axis keeps no range then.
update_jsd_timeline_plot(model, chart, mapping) ==
    LET n == Len(model.column_infos)
        series == [c \in 1..n |->
                     [ name   |-> <<model.column_infos[c].file1, model.column_infos[c].file2,
                                    model.column_infos[c].category>>,
                       points |-> timeline_points(model, c - 1) ]]
        RECURSIVE Mapping(_)
        Mapping(c) == IF c = 0 THEN clear_color_mapping(mapping)
                      ELSE add_color_mapping(Mapping(c - 1), series_color(c - 1),
                                             QRect(2 * (c - 1), 0, 2, rowCount(model, 2 * (c - 1))))
        mins == date_min_candidates(model)
        maxs == date_max_candidates(model)
        inf == mins = {} \/ maxs = {}
    IN  [ chart   |-> [ series |-> series,
                        axis_x |-> IF inf THEN <<>> ELSE <<MinTime(mins), MaxTime(maxs)>>,
                        axis_y |-> <<0, 1>> ],
          mapping |-> Mapping(n),
          ret     |-> IF inf THEN "OverflowError" ELSE "True" ]

\* JsdChart(): no series, no axes
EmptyChart == [series |-> <<>>, axis_x |-> <<>>, axis_y |-> <<>>]

(***************************************************************************)
(* JsdDataSelectionGroupBox.  The group box is its form layout (a sequence *)
(* of rows), file_comboboxes and file_checkboxes.  A combobox and the      *)
(* checkbox next to it carry the identity of the row widget they were      *)
(* created for.                                                            *)
(***************************************************************************)
NUM_DEFAULT_DATA_ITEMS == 2

MaxFiles == 5       \* files opened: the items of a file combobox
MaxCount == 3       \* the count handed to set_num_data_items

\* the (description, name) item of the k-th file opened
FileItem(k) == <<(<<"description", k>>), (<<"name", k>>)>>

\* data_sources of n entries
DataSources(n) == [k \in 1..n |-> [description |-> FileItem(k)[1], name |-> FileItem(k)[2]]]

\* QComboBox(): no items, no current item
QComboBox(id) == [id |-> id, items |-> <<>>, current |-> -1]

\* QComboBox.addItem: the first item of an empty combobox becomes the current one
addItem(cbox, text, userData) ==
    [cbox EXCEPT !.items = Append(@, <<text, userData>>),
                 !.current = IF Len(cbox.items) = 0 THEN 0 ELSE @]

\* QComboBox.setCurrentIndex: an index that is not an item's clears the current item
setCurrentIndex(cbox, index) ==
    [cbox EXCEPT !.current = IF index >= 0 /\ index < Len(cbox.items) THEN index ELSE -1]

\* a variant that adds the row at the end, as addRow does
insertRow_at_end(layout, row, r) == Append(layout, r)

\* QFormLayout.insertRow: a row that is negative or past the end appends
insertRow(layout, row, r) ==
    LET at == IF row < 0 \/ row > Len(layout) THEN Len(layout) ELSE row
    IN  SubSeq(layout, 1, at) \o <<r>> \o SubSeq(layout, at + 1, Len(layout))

\* QFormLayout.removeRow: an invalid row removes nothing
removeRow(layout, row) ==
    IF row < 0 \/ row >= Len(layout) THEN layout
    ELSE SubSeq(layout, 1, row) \o SubSeq(layout, row + 2, Len(layout))

\* list.pop(index) for an index of the list
pop(list, index) == SubSeq(list, 1, index) \o SubSeq(list, index + 2, Len(list))

\* the row of the category label and combobox
CategoryRow == [label |-> "Attribute", field |-> <<"category_combobox">>]

\* the identities of the widgets the group box holds
LiveWidgets(gb) ==
    { gb.file_comboboxes[k].id : k \in 1..Len(gb.file_comboboxes) }
        \cup { gb.file_checkboxes[k].id : k \in 1..Len(gb.file_checkboxes) }
        \cup { gb.form_layout[k].field[2] :
                 k \in { j \in 1..Len(gb.form_layout) : gb.form_layout[j] # CategoryRow } }

\* the identity of a newly created widget: the first one not held
NewWidget(gb) ==
    CHOOSE id \in 0..Cardinality(LiveWidgets(gb)) :
        id \notin LiveWidgets(gb) /\ \A j \in 0..(id - 1) : j \in LiveWidgets(gb)

RECURSIVE addItems(_, _, _)
\* lines 137-138: the first k items of cbox added to new_combobox
addItems(new_combobox, cbox, k) ==
    IF k = 0 THEN new_combobox
    ELSE addItem(addItems(new_combobox, cbox, k - 1), cbox.items[k][1], cbox.items[k][2])

\* lines 121-139
add_file_combobox_to_layout(gb, auto_populate) ==
    LET new_combobox == QComboBox(NewWidget(gb))
        new_checkbox == [id |-> NewWidget(gb), checked |-> FALSE]
        index == Len(gb.form_layout)
        new_label == <<"Data File", index>>
        file_comboboxes == Append(gb.file_comboboxes, new_combobox)
        cbox == file_comboboxes[1]
    IN  [ form_layout     |-> insertRow(gb.form_layout, index - 1,
                                        [label |-> new_label, field |-> <<"hbox", new_combobox.id>>]),
          file_comboboxes |-> IF auto_populate
                              THEN Append(gb.file_comboboxes,
                                          setCurrentIndex(addItems(new_combobox, cbox, Len(cbox.items)),
                                                          index - 1))
                              ELSE file_comboboxes,
          file_checkboxes |-> Append(gb.file_checkboxes, new_checkbox) ]

\* lines 155-158: the group box after the call and the exception it raised, or "None"
remove_file_combobox_from_layout(gb) ==
    LET index == Len(gb.file_comboboxes) - 1
    IN  IF index < 0       \* removeRow(-1) removes nothing, [].pop(-1) raises
        THEN [gb |-> gb, ret |-> "IndexError"]
        ELSE IF index >= Len(gb.file_checkboxes)
        THEN [gb |-> [gb EXCEPT !.form_layout = removeRow(@, index),
                                !.file_comboboxes = pop(@, index)],
              ret |-> "IndexError"]
        ELSE [gb |-> [ form_layout     |-> removeRow(gb.form_layout, index),
                       file_comboboxes |-> pop(gb.file_comboboxes, index),
                       file_checkboxes |-> pop(gb.file_checkboxes, index) ],
              ret |-> "None"]

RECURSIVE AddOrRemove(_, _, _)
\* the two loops of lines 180-183: the group box, the events so far and the outcome
AddOrRemove(gb, count, trace) ==
    IF Len(gb.file_comboboxes) < count
    THEN AddOrRemove(add_file_combobox_to_layout(gb, TRUE), count, Append(trace, <<"add">>))
    ELSE IF Len(gb.file_comboboxes) > count
    THEN LET r == remove_file_combobox_from_layout(gb)
         IN  IF r.ret # "None" THEN [gb |-> r.gb, trace |-> trace, ret |-> r.ret]
             ELSE AddOrRemove(r.gb, count, Append(trace, <<"remove">>))
    ELSE [gb |-> gb, trace |-> trace, ret |-> "None"]

\* a variant without the early return of lines 178-179
set_num_data_items_always_emit(gb, count) ==
    LET r == AddOrRemove(gb, count, <<>>)
    IN  IF r.ret # "None" THEN r
        ELSE [r EXCEPT !.trace = Append(@, <<"num_data_items_changed", count>>)]

\* lines 178-184
set_num_data_items(gb, count) ==
    IF Len(gb.file_comboboxes) = count THEN [gb |-> gb, trace |-> <<>>, ret |-> "None"]
    ELSE LET r == AddOrRemove(gb, count, <<>>)
         IN  IF r.ret # "None" THEN r
             ELSE [r EXCEPT !.trace = Append(@, <<"num_data_items_changed", count>>)]

\* lines 201-202
add_file_to_comboboxes(gb, description, name) ==
    [gb EXCEPT !.file_comboboxes =
                   [k \in 1..Len(gb.file_comboboxes) |-> addItem(gb.file_comboboxes[k], description, name)]]

RECURSIVE AddSources(_, _, _)
\* lines 102-104: the first k data sources added to the comboboxes
AddSources(gb, data_sources, k) ==
    IF k = 0 THEN gb
    ELSE add_file_to_comboboxes(AddSources(gb, data_sources, k - 1),
                                data_sources[k].description, data_sources[k].name)

\* __init__ and set_layout (lines 74-109): the group box built for data_sources
set_layout(data_sources) ==
    LET empty == [form_layout |-> <<CategoryRow>>, file_comboboxes |-> <<>>, file_checkboxes |-> <<>>]
        first == add_file_combobox_to_layout(empty, FALSE)
        filled == AddSources(first, data_sources, Len(data_sources))
        selected == [filled EXCEPT !.file_comboboxes[1] = setCurrentIndex(@, 0),
                                   !.file_checkboxes[1].checked = TRUE]
    IN  set_num_data_items(selected, NUM_DEFAULT_DATA_ITEMS).gb

\* QSpinBox: setMinimum(2), then setMaximum(maximum) lowers the minimum to keep the range valid
SpinboxRange(maximum) == (IF maximum < 2 THEN maximum ELSE 2) .. maximum

(***************************************************************************)
(* The state machine.  The tables, the pair mapping and the table model    *)
(* are loaded before the window rebuilds; the selection changes between    *)
(* rebuilds.                                                               *)
(***************************************************************************)
NoCall == [op |-> "None", args |-> <<>>, ret |-> "None"]

NoGroupBoxCall == [op |-> "None", count |-> 0, before |-> 0, trace |-> <<>>, ret |-> "None"]

\* the window after construction: empty layouts, QPolarChart(), JsdChart(), first category current
InitWindow ==
    /\ category = Categories[1]
    /\ area_chart_layout = <<>>
    /\ pie_chart_layout = <<>>
    /\ spider_chart = EmptyPolarChart
    /\ jsd_timeline_chart = EmptyChart
    /\ color_mapping = <<>>
    /\ stale_mapping = <<>>
    /\ call = NoCall
    /\ again = FALSE
    /\ groupbox_call = NoGroupBoxCall

InitSheets ==
    /\ IsSheetDict(sheet_dict)
    /\ spider_plot_values_dict = <<>>
    /\ jsd_model = EmptyModel
    /\ sources_loaded = DataSources(NUM_DEFAULT_DATA_ITEMS)
    /\ dataselectiongroupbox = set_layout(sources_loaded)
    /\ InitWindow

InitSpider ==
    /\ sheet_dict = <<>>
    /\ IsSpiderDict(spider_plot_values_dict)
    /\ jsd_model = EmptyModel
    /\ sources_loaded = DataSources(NUM_DEFAULT_DATA_ITEMS)
    /\ dataselectiongroupbox = set_layout(sources_loaded)
    /\ InitWindow

InitModel ==
    /\ sheet_dict = <<>>
    /\ spider_plot_values_dict = <<>>
    /\ IsJsdModel(jsd_model)
    /\ sources_loaded = DataSources(NUM_DEFAULT_DATA_ITEMS)
    /\ dataselectiongroupbox = set_layout(sources_loaded)
    /\ InitWindow

\* the window constructed for 0..MaxFiles data sources, nothing loaded yet
InitGroupBox ==
    /\ sheet_dict = <<>>
    /\ spider_plot_values_dict = <<>>
    /\ jsd_model = EmptyModel
    /\ \E n \in 0..MaxFiles : sources_loaded = DataSources(n)
    /\ dataselectiongroupbox = set_layout(sources_loaded)
    /\ InitWindow

Init == InitSheets \/ InitSpider \/ InitModel \/ InitGroupBox

\* the record of a call, and whether it repeats the call before it
Called(op, args, ret) ==
    /\ call' = [op |-> op, args |-> args, ret |-> ret]
    /\ again' = (call.op = op /\ call.args = args)

UpdateAreaChart ==
    LET r == update_area_chart(sheet_dict, category, area_chart_layout)
    IN  /\ area_chart_layout' = r.layout
        /\ sheet_dict' = sheet_dict_after_area(sheet_dict, category)
        /\ Called("update_area_chart", <<sheet_dict, category>>, r.ret)
        /\ UNCHANGED <<groupbox, category, spider_plot_values_dict, jsd_model, pie_chart_layout,
                       spider_chart, jsd_timeline_chart, color_mapping, stale_mapping>>

UpdatePieChartDock ==
    LET r == update_pie_chart_dock(sheet_dict, Categories, pie_chart_layout)
    IN  /\ pie_chart_layout' = r.layout
        /\ Called("update_pie_chart_dock", <<sheet_dict>>, r.ret)
        /\ UNCHANGED <<groupbox, sheet_dict, category, spider_plot_values_dict, jsd_model, area_chart_layout,
                       spider_chart, jsd_timeline_chart, color_mapping, stale_mapping>>

UpdateSpiderChart ==
    LET r == update_spider_chart(spider_plot_values_dict, spider_chart)
    IN  /\ spider_chart' = r.chart
        /\ Called("update_spider_chart", <<spider_plot_values_dict>>, r.ret)
        /\ UNCHANGED <<groupbox, sheet_dict, category, spider_plot_values_dict, jsd_model, area_chart_layout,
                       pie_chart_layout, jsd_timeline_chart, color_mapping, stale_mapping>>

UpdateJsdTimelinePlot ==
    LET r == update_jsd_timeline_plot(jsd_model, jsd_timeline_chart, color_mapping)
    IN  /\ jsd_timeline_chart' = r.chart
        /\ color_mapping' = r.mapping
        /\ stale_mapping' = IF Len(color_mapping) # Len(r.mapping) THEN color_mapping ELSE <<>>
        /\ Called("update_jsd_timeline_plot", <<jsd_model>>, r.ret)
        /\ UNCHANGED <<groupbox, sheet_dict, category, spider_plot_values_dict, jsd_model, area_chart_layout,
                       pie_chart_layout, spider_chart>>

\* the user picks another item of category_combobox
SelectCategory ==
    /\ \E i \in 1..Len(Categories) : Categories[i] # category /\ category' = Categories[i]
    /\ UNCHANGED <<groupbox, sheet_dict, spider_plot_values_dict, jsd_model, area_chart_layout, pie_chart_layout,
                   spider_chart, jsd_timeline_chart, color_mapping, stale_mapping, call, again>>

\* a file is deselected: the mapping loses its last comparison pair
RemoveComparison ==
    /\ Len(spider_plot_values_dict) > 0
    /\ spider_plot_values_dict' = SubSeq(spider_plot_values_dict, 1, Len(spider_plot_values_dict) - 1)
    /\ UNCHANGED <<groupbox, sheet_dict, category, jsd_model, area_chart_layout, pie_chart_layout,
                   spider_chart, jsd_timeline_chart, color_mapping, stale_mapping, call, again>>

\* a file is deselected: the table model loses its last comparison
RemoveModelColumn ==
    /\ Len(jsd_model.column_infos) > 0
    /\ jsd_model' = [ column_infos |-> SubSeq(jsd_model.column_infos, 1, Len(jsd_model.column_infos) - 1),
                      input_data   |-> SubSeq(jsd_model.input_data, 1, Len(jsd_model.input_data) - 2) ]
    /\ UNCHANGED <<groupbox, sheet_dict, category, spider_plot_values_dict, area_chart_layout, pie_chart_layout,
                   spider_chart, jsd_timeline_chart, color_mapping, stale_mapping, call, again>>

\* what the group box actions leave alone
window == <<sheet_dict, category, spider_plot_values_dict, jsd_model, area_chart_layout,
            pie_chart_layout, spider_chart, jsd_timeline_chart, color_mapping, stale_mapping,
            call, again>>

\* the files opened: the items of the first file combobox
FilesOpened(gb) == IF Len(gb.file_comboboxes) = 0 THEN 0 ELSE Len(gb.file_comboboxes[1].items)

\* set_num_data_items(count) called on the group box
SetNumDataItems ==
    \E count \in 0..MaxCount :
        LET r == set_num_data_items(dataselectiongroupbox, count)
        IN  /\ dataselectiongroupbox' = r.gb
            /\ groupbox_call' = [ op |-> "set_num_data_items", count |-> count,
                                  before |-> Len(dataselectiongroupbox.file_comboboxes),
                                  trace |-> r.trace, ret |-> r.ret ]
            /\ UNCHANGED <<window, sources_loaded>>

\* add_file_combobox_to_layout called on the group box, with or without auto_populate
AddFileComboboxToLayout ==
    /\ Len(dataselectiongroupbox.file_comboboxes) < MaxCount
    /\ \E auto_populate \in BOOLEAN :
          dataselectiongroupbox' = add_file_combobox_to_layout(dataselectiongroupbox, auto_populate)
    /\ groupbox_call' = [ op |-> "add_file_combobox_to_layout", count |-> 0,
                          before |-> Len(dataselectiongroupbox.file_comboboxes),
                          trace |-> <<(<<"add">>)>>, ret |-> "None" ]
    /\ UNCHANGED <<window, sources_loaded>>

\* remove_file_combobox_from_layout called on the group box
RemoveFileComboboxFromLayout ==
    LET r == remove_file_combobox_from_layout(dataselectiongroupbox)
    IN  /\ dataselectiongroupbox' = r.gb
        /\ groupbox_call' = [ op |-> "remove_file_combobox_from_layout", count |-> 0,
                              before |-> Len(dataselectiongroupbox.file_comboboxes),
                              trace |-> IF r.ret = "None" THEN <<(<<"remove">>)>> ELSE <<>>,
                              ret |-> r.ret ]
        /\ UNCHANGED <<window, sources_loaded>>

\* open_excel_file (lines 777-787): the dialog's data source is emitted with add_data_source
\* and its description and name go to every combobox
OpenExcelFile ==
    /\ Len(sources_loaded) < MaxFiles
    /\ LET data_source_dict == DataSources(Len(sources_loaded) + 1)[Len(sources_loaded) + 1]
       IN  /\ sources_loaded' = Append(sources_loaded, data_source_dict)     \* add_data_source.emit
           /\ dataselectiongroupbox' =
                  add_file_to_comboboxes(dataselectiongroupbox, data_source_dict.description,
                                         data_source_dict.name)
    /\ groupbox_call' = [ op |-> "open_excel_file", count |-> 0,
                          before |-> Len(dataselectiongroupbox.file_comboboxes),
                          trace |-> <<>>, ret |-> "None" ]
    /\ UNCHANGED window

\* adjust_number_of_files_to_compare (lines 806-826): the user picks a value of the spinbox
\* and accepts or rejects the dialog
AdjustNumberOfFilesToCompare ==
    LET gb == dataselectiongroupbox
        before == Len(gb.file_comboboxes)
    IN  /\ IF before = 0        \* file_comboboxes[0] raises
           THEN /\ dataselectiongroupbox' = gb
                /\ groupbox_call' = [ op |-> "adjust_number_of_files_to_compare", count |-> 0,
                                      before |-> before, trace |-> <<>>, ret |-> "IndexError" ]
           ELSE \E value \in SpinboxRange(Len(gb.file_comboboxes[1].items)), accepted \in BOOLEAN :
                    LET r == IF accepted THEN set_num_data_items(gb, value)
                             ELSE [gb |-> gb, trace |-> <<>>, ret |-> "None"]
                    IN  /\ dataselectiongroupbox' = r.gb
                        /\ groupbox_call' = [ op |-> "adjust_number_of_files_to_compare",
                                              count |-> value, before |-> before,
                                              trace |-> r.trace, ret |-> r.ret ]
        /\ UNCHANGED <<window, sources_loaded>>

Next ==
    \/ UpdateAreaChart
    \/ UpdatePieChartDock
    \/ UpdateSpiderChart
    \/ UpdateJsdTimelinePlot
    \/ SelectCategory
    \/ RemoveComparison
    \/ RemoveModelColumn
    \/ SetNumDataItems
    \/ OpenExcelFile
    \/ AdjustNumberOfFilesToCompare
    \/ AddFileComboboxToLayout
    \/ RemoveFileComboboxFromLayout

Spec == Init /\ [][Next]_vars

NextArea == UpdateAreaChart \/ SelectCategory
SpecArea == InitSheets /\ [][NextArea]_vars

NextPie == UpdatePieChartDock \/ SelectCategory
SpecPie == InitSheets /\ [][NextPie]_vars

NextSpider == UpdateSpiderChart \/ RemoveComparison
SpecSpider == InitSpider /\ [][NextSpider]_vars

NextTimeline == UpdateJsdTimelinePlot \/ RemoveModelColumn
SpecTimeline == InitModel /\ [][NextTimeline]_vars

\* the area chart over the two-row percentage tables
InitScenario ==
    /\ IsScenarioSheetDict(sheet_dict)
    /\ spider_plot_values_dict = <<>>
    /\ jsd_model = EmptyModel
    /\ sources_loaded = DataSources(NUM_DEFAULT_DATA_ITEMS)
    /\ dataselectiongroupbox = set_layout(sources_loaded)
    /\ InitWindow

SpecScenario == InitScenario /\ [][NextArea]_vars

\* the two panel rebuilds and the category selection
NextPanels == UpdateAreaChart \/ UpdatePieChartDock \/ SelectCategory
SpecPanels == InitSheets /\ [][NextPanels]_vars

\* the group box resized and filled
NextGroupBox == SetNumDataItems \/ OpenExcelFile
SpecGroupBox == InitGroupBox /\ [][NextGroupBox]_vars

\* the rows of the form layout added and removed
NextLayout == AddFileComboboxToLayout \/ RemoveFileComboboxFromLayout \/ SetNumDataItems
SpecLayout == InitGroupBox /\ [][NextLayout]_vars

\* the two menu actions on the files to compare
NextFiles == OpenExcelFile \/ AdjustNumberOfFilesToCompare
SpecFiles == InitGroupBox /\ [][NextFiles]_vars

\* the four rebuilds alone, over every loaded input
NextRebuild == UpdateAreaChart \/ UpdatePieChartDock \/ UpdateSpiderChart \/ UpdateJsdTimelinePlot
SpecRebuild == Init /\ [][NextRebuild]_vars

(***************************************************************************)
(* The claims.  call.args holds the arguments of the most recent rebuild,  *)
(* so a claim about "the input of the call" reads them from there.         *)
(***************************************************************************)
CalledArea == call.op = "update_area_chart"
CalledPie == call.op = "update_pie_chart_dock"
CalledSpider == call.op = "update_spider_chart"

\* the sheet that area chart panel k was built from
AreaSheet(k) == call.args[1][k].sheets[call.args[2]]

\* the value of series s at row i
PointValue(s, i) == s.points[i][2]

\* C1 as stated: in every area chart panel, for every row whose sum over the data columns is
\* not zero, the cumulative percent of the last retained column is 100.
C1_LastRetainedColumnIs100 ==
    CalledArea =>
        \A k \in 1..Len(area_chart_layout) :
            LET df == AreaSheet(k).df
                cols == AreaSheet(k).data_columns
                series == area_chart_layout[k].series
            IN  \A i \in 1..Len(df) :
                    (total_counts(df, cols, i) # 0 /\ Len(series) > 0)
                        => PointValue(series[Len(series)], i) = Num(100)

C9_ZeroTotalRowIsZero ==
    CalledArea =>
        \A k \in 1..Len(area_chart_layout) :
            LET df == AreaSheet(k).df
                cols == AreaSheet(k).data_columns
                series == area_chart_layout[k].series
            IN  \A i \in 1..Len(df) : \A n \in 1..Len(series) :
                    total_counts(df, cols, i) = 0 => PointValue(series[n], i) = Num(0)

\* C10: a single-row table gives every series two points, the row's and one 1 ms later with
\* the same value, and a time axis from the row's date to 1 ms later; a table of two or more
\* rows gives every series one point per row, at the rows' dates.
C10_SingleRowSecondPoint ==
    CalledArea =>
        \A k \in 1..Len(area_chart_layout) :
            LET df == AreaSheet(k).df
                chart == area_chart_layout[k]
                t(i) == toMSecsSinceEpoch(df[i].date)
            IN  \A n \in 1..Len(chart.series) :
                    LET points == chart.series[n].points
                    IN  IF Len(df) = 1
                        THEN /\ Len(points) = 2
                             /\ points[1][1] = t(1)
                             /\ points[2][1] = <<t(1)[1], t(1)[2] + 1>>
                             /\ points[2][2] = points[1][2]
                             /\ chart.axis_x = <<t(1), <<t(1)[1], t(1)[2] + 1>> >>
                        ELSE /\ Len(points) = Len(df)
                             /\ \A i \in 1..Len(df) : points[i][1] = t(i)

\* a panel with a series, built from a single-row table
C10_Witness ==
    /\ CalledArea
    /\ \E k \in 1..Len(area_chart_layout) :
          /\ Len(AreaSheet(k).df) = 1
          /\ Len(area_chart_layout[k].series) = 2
          /\ Len(area_chart_layout[k].series[2].points) = 2

\* the sheet that pie row k shows for category c
PieSheet(k, c) == call.args[1][k].sheets[c]

\* C4: no pie slice has a latest-row value <= 0, and a source/category whose data columns
\* all have a latest-row value <= 0 has no pie chart.
C4_NoNonPositiveSlice ==
    CalledPie =>
        \A k \in 1..Len(pie_chart_layout) :
            LET charts == pie_chart_layout[k].charts
            IN  /\ \A n \in 1..Len(charts) : \A j \in 1..Len(charts[n].slices) :
                      LET slice == charts[n].slices[j]
                          df == PieSheet(k, charts[n].title).df
                      IN  /\ slice[2] > 0
                          /\ slice[2] = df[Len(df)].vals[slice[1]]
                /\ \A c \in DOMAIN call.args[1][k].sheets :
                      LET df == PieSheet(k, c).df
                          cols == PieSheet(k, c).data_columns
                      IN  (\A j \in 1..Len(cols) : df[Len(df)].vals[cols[j]] <= 0)
                              => \A n \in 1..Len(charts) : charts[n].title # c

\* a row with a one-slice chart for c1 (column A is 0 in the latest row) and no chart for c2
\* (both columns are 0 in the latest row)
C4_Witness ==
    /\ CalledPie
    /\ \E k \in 1..Len(pie_chart_layout) :
          /\ DOMAIN call.args[1][k].sheets = {"c1", "c2"}
          /\ Len(pie_chart_layout[k].charts) = 1
          /\ pie_chart_layout[k].charts[1].title = "c1"
          /\ Len(pie_chart_layout[k].charts[1].slices) = 1
          /\ pie_chart_layout[k].charts[1].slices[1][1] = "B"

\* the labels of the most recent spider call, and the series of pair p
SpiderInput == call.args[1]
SpiderBuilt == CalledSpider /\ call.ret = "True"

\* C3: after a call with a non-empty mapping every pair's series has len(categories) + 1
\* points, and point 0 and point len(categories) have equal values.
C3_ClosedPolygon ==
    SpiderBuilt =>
        LET n == Len(spider_labels(SpiderInput))
        IN  \A p \in 1..Len(spider_chart.series) :
                /\ Len(spider_chart.series[p].points) = n + 1
                /\ spider_chart.series[p].points[1][2] = spider_chart.series[p].points[n + 1][2]

\* two polygons over two categories, one of them with different values at the two categories
C3_Witness ==
    /\ SpiderBuilt
    /\ Len(spider_chart.series) = 2
    /\ Len(spider_chart.series[2].points) = 3
    /\ spider_chart.series[2].points[1][2] # spider_chart.series[2].points[2][2]

\* C6: a call with an empty pair mapping returns False and raises nothing.
C6_EmptyMappingReturnsFalse ==
    (CalledSpider /\ Len(SpiderInput) = 0) => call.ret = "False"

\* a call with an empty mapping, made while the chart shows an earlier comparison
C6_Witness ==
    /\ CalledSpider
    /\ Len(SpiderInput) = 0
    /\ call.ret = "False"
    /\ Len(spider_chart.series) > 0

\* C7 as stated: after every call, also one with an empty mapping, the radial axis is 0 to
\* the maximum scalar of that call's input, and the chart keeps no maximum and no series of
\* an earlier call.
C7_NoStaleMaximum ==
    CalledSpider =>
        IF Len(SpiderInput) = 0
        THEN spider_chart.radial = <<>> /\ spider_chart.series = <<>>
        ELSE /\ spider_chart.radial = <<[range |-> <<0, spider_max_value(SpiderInput)>>]>>
             /\ Len(spider_chart.series) = Len(SpiderInput)

\* C8 as stated: the point at angle 360 carries the value of the final category.
C8_ClosingPointIsFinalCategory ==
    SpiderBuilt =>
        LET labels == spider_labels(SpiderInput)
        IN  \A p \in 1..Len(spider_chart.series) :
                spider_chart.series[p].points[Len(labels) + 1]
                    = <<Num(360), SpiderInput[p].values.val[labels[Len(labels)]]>>

\* C8 amended: the point at angle 360 carries the value of the first category in the
\* supplied order, the value plotted at angle 0.
C8_ClosingPointIsFirstCategory ==
    SpiderBuilt =>
        LET labels == spider_labels(SpiderInput)
        IN  \A p \in 1..Len(spider_chart.series) :
                spider_chart.series[p].points[Len(labels) + 1]
                    = <<Num(360), SpiderInput[p].values.val[labels[1]]>>

\* a polygon whose first and final categories have different values
C8_Witness ==
    /\ SpiderBuilt
    /\ LET labels == spider_labels(SpiderInput)
       IN  /\ Len(labels) > 1
           /\ SpiderInput[1].values.val[labels[1]] # SpiderInput[1].values.val[labels[Len(labels)]]

\* the derived structures
derived == <<area_chart_layout, pie_chart_layout, spider_chart, jsd_timeline_chart, color_mapping>>

\* C5: a rebuild called twice in a row with the same arguments leaves the derived structures
\* (series, points, axis ranges, color mapping, panels) as the first call left them, and ends
\* the same way.
C5_RebuildIdempotent ==
    [][again' => (derived' = derived /\ call'.ret = call.ret)]_vars

\* the area chart was rebuilt twice in a row for two files
C5_Witness ==
    /\ again
    /\ CalledArea
    /\ Len(area_chart_layout) = 2

\* the most recent rebuild was update_jsd_timeline_plot
CalledTimeline == call.op = "update_jsd_timeline_plot"

\* the grid columns a mapping entry covers
RectColumns(rect) == rect.x .. (rect.x + rect.width - 1)

\* C11: after every update_jsd_timeline_plot call the color mapping holds exactly one entry
\* per rendered time-line series, in series order; the entry of series c (0-based) covers
\* the grid columns 2c and 2c+1 and carries that series' color; no entry of an earlier
\* rebuild remains.
C11_OneMappingEntryPerSeries ==
    CalledTimeline =>
        /\ Len(color_mapping) = Len(jsd_timeline_chart.series)
        /\ Len(color_mapping) = Len(call.args[1].column_infos)
        /\ \A c \in 0..(Len(color_mapping) - 1) :
              /\ RectColumns(color_mapping[c + 1].rect) = {2 * c, 2 * c + 1}
              /\ color_mapping[c + 1].color = series_color(c)

\* a rebuild for one comparison that found the two entries of an earlier rebuild for two
C11_Witness ==
    /\ CalledTimeline
    /\ Len(stale_mapping) = 2
    /\ Len(color_mapping) = 1
    /\ Len(jsd_timeline_chart.series) = 1

\* the timestamps of all points of all time-line series
AllPointTimes ==
    UNION { { jsd_timeline_chart.series[c].points[i][1] :
                i \in 1..Len(jsd_timeline_chart.series[c].points) } :
            c \in 1..Len(jsd_timeline_chart.series) }

\* C12 as stated: after update_jsd_timeline_plot the time axis range is the minimum and the
\* maximum timestamp over all points appended to all series, also when the first or the last
\* date of a series cannot be converted.
C12_AxisRangeIsMinMaxOfPoints ==
    (CalledTimeline /\ AllPointTimes # {}) =>
        jsd_timeline_chart.axis_x = <<MinTime(AllPointTimes), MaxTime(AllPointTimes)>>

\* the source tables and the pair mapping
sources == <<sheet_dict, spider_plot_values_dict, jsd_model>>

\* C13: no rebuild (update_area_chart, update_pie_chart_dock, update_spider_chart,
\* update_jsd_timeline_plot) changes a source table's rows, columns or values, or the pair
\* mapping: they are equal before and after every call.
C13_RebuildsLeaveSources ==
    [][NextRebuild => sources' = sources]_vars

\* the area chart was rebuilt from a table with a row whose running sum differs from its
\* values, and the table still holds that row
C13_Witness ==
    /\ CalledArea
    /\ call.ret = "True"
    /\ sheet_dict = call.args[1]
    /\ \E k \in 1..Len(sheet_dict) :
          \E i \in 1..Len(AreaSheet(k).df) :
              AreaSheet(k).df[i].vals = [c \in {"A", "B"} |-> 1]

\* the call ended with the exception of a precondition violation
PreconditionViolation(c) == c.ret \in {"KeyError", "IndexError"}

\* C14 as stated: when update_area_chart or update_pie_chart_dock hits a precondition
\* violation (the category is missing from a source's sheets, or a source table is empty),
\* the error reaches the caller and the displayed panels are exactly as before the call.
C14_NoPartialUpdate ==
    [][PreconditionViolation(call')
         => (area_chart_layout' = area_chart_layout /\ pie_chart_layout' = pie_chart_layout)]_vars

\* the table has rows and every value of every data column is 0
AllZero(sheet_data) ==
    /\ Len(sheet_data.df) > 0
    /\ \A i \in 1..Len(sheet_data.df) : \A j \in 1..Len(sheet_data.data_columns) :
          sheet_data.df[i].vals[sheet_data.data_columns[j]] = 0

\* C15 as stated: a builder with nothing to render raises nothing and its panel is omitted:
\* update_area_chart adds no panel for a source whose table is all zero, and
\* update_jsd_timeline_plot completes without raising for a model of zero comparisons.
C15_NothingToRenderOmitsPanel ==
    /\ (CalledArea /\ call.ret = "True") =>
          \A k \in 1..Len(call.args[1]) :
              AllZero(AreaSheet(k)) =>
                  \A n \in 1..Len(area_chart_layout) :
                      area_chart_layout[n].title[1] # FileData(call.args[1][k].index)
    /\ (CalledTimeline /\ Len(call.args[1].column_infos) = 0) => call.ret = "True"

\* C16: update_spider_chart produces exactly one polygon per comparison pair of its input
\* mapping, in the mapping's order and named after the pair's two files, so one pair gives
\* one polygon and k pairs give k; every polygon is attached to the chart's one angular and
\* one radial axis.
C16_OnePolygonPerPair ==
    (CalledSpider /\ Len(SpiderInput) > 0) =>
        /\ call.ret = "True"
        /\ Len(spider_chart.series) = Len(SpiderInput)
        /\ Len(spider_chart.angular) = 1
        /\ Len(spider_chart.radial) = 1
        /\ \A p \in 1..Len(SpiderInput) :
              /\ spider_chart.series[p].name = <<FileData(SpiderInput[p].index_pair[1]),
                                                 FileData(SpiderInput[p].index_pair[2])>>
              /\ spider_chart.series[p].axes = <<"angular", "radial">>

\* a chart rebuilt for two pairs: two polygons with different names
C16_Witness ==
    /\ SpiderBuilt
    /\ Len(SpiderInput) = 2
    /\ Len(spider_chart.series) = 2
    /\ spider_chart.series[1].name # spider_chart.series[2].name

\* C17: with n categories, category number i (0-based, in the order the first pair's mapping
\* lists them) is labelled at angle i * 360 / n, and every pair's polygon plots the pair's
\* value for that category at that angle, also when the pair's own mapping lists the
\* categories in another order.
C17_CategoryAngles ==
    SpiderBuilt =>
        LET labels == SpiderInput[1].values.keys
            n == Len(labels)
        IN  /\ Len(spider_chart.angular[1].labels) = n
            /\ \A i \in 0..(n - 1) :
                  /\ spider_chart.angular[1].labels[i + 1] = <<labels[i + 1], Div(i * 360, n)>>
                  /\ \A p \in 1..Len(SpiderInput) :
                        spider_chart.series[p].points[i + 1]
                            = <<Div(i * 360, n), SpiderInput[p].values.val[labels[i + 1]]>>

\* two pairs over two categories; the second pair lists the categories in reverse order and
\* holds different values for them
C17_Witness ==
    /\ SpiderBuilt
    /\ Len(SpiderInput) = 2
    /\ Len(SpiderInput[1].values.keys) = 2
    /\ SpiderInput[2].values.keys = Reverse(SpiderInput[1].values.keys)
    /\ SpiderInput[2].values.val["c1"] # SpiderInput[2].values.val["c2"]
    /\ spider_chart.series[2].points[2][1] = Num(180)

\* the rows [{A: 40, B: 60}, {A: 0, B: 100}]
ScenarioRows ==
    <<[date |-> RowDate(1), vals |-> [c \in {"A", "B"} |-> IF c = "A" THEN 40 ELSE 60]],
      [date |-> RowDate(2), vals |-> [c \in {"A", "B"} |-> IF c = "A" THEN 0 ELSE 100]]>>

\* the area chart was rebuilt from the table of ScenarioRows with data columns A, B
CalledOnScenario ==
    /\ CalledArea
    /\ call.ret = "True"
    /\ Len(call.args[1]) = 1
    /\ AreaSheet(1).df = ScenarioRows
    /\ AreaSheet(1).data_columns = <<"A", "B">>

C19_SetNumDataItems ==
    [][groupbox_call'.op = "set_num_data_items" =>
         LET before == Len(dataselectiongroupbox.file_comboboxes)
             count == groupbox_call'.count
             trace == groupbox_call'.trace
         IN  /\ groupbox_call'.ret = "None"
             /\ IF before = count
                THEN dataselectiongroupbox' = dataselectiongroupbox /\ trace = <<>>
                ELSE /\ Len(trace) = (IF count > before THEN count - before ELSE before - count) + 1
                     /\ \A i \in 1..(Len(trace) - 1) :
                           trace[i] = IF count > before THEN <<"add">> ELSE <<"remove">>
                     /\ trace[Len(trace)] = <<"num_data_items_changed", count>>
             /\ count >= 1 => Len(dataselectiongroupbox'.file_comboboxes) = count]_vars

\* a call that removed two of three comboboxes and then emitted the signal
C19_Witness ==
    /\ groupbox_call.op = "set_num_data_items"
    /\ groupbox_call.before = 3
    /\ groupbox_call.count = 1
    /\ groupbox_call.trace = <<(<<"remove">>), (<<"remove">>), (<<"num_data_items_changed", 1>>)>>
    /\ Len(dataselectiongroupbox.file_comboboxes) = 1

\* C20 as stated: after any sequence of open_excel_file and adjust_number_of_files_to_compare
\* operations from construction on, the number of file comboboxes lies between 2 and the
\* number of files opened (the items of the first combobox).
C20_ComboboxesBetweenTwoAndFiles ==
    /\ Len(dataselectiongroupbox.file_comboboxes) >= 2
    /\ Len(dataselectiongroupbox.file_comboboxes) <= FilesOpened(dataselectiongroupbox)

\* form-layout row k (0-based) holds file combobox k and its checkbox, and the category row
\* is the last row
RowsMatchComboboxes(gb) ==
    LET n == Len(gb.file_comboboxes)
    IN  /\ Len(gb.file_checkboxes) = n
        /\ Len(gb.form_layout) = n + 1
        /\ \A k \in 0..(n - 1) :
              /\ gb.form_layout[k + 1].field = <<"hbox", gb.file_comboboxes[k + 1].id>>
              /\ gb.file_checkboxes[k + 1].id = gb.file_comboboxes[k + 1].id
        /\ gb.form_layout[n + 1] = CategoryRow

\* C21: after any sequence of add_file_combobox_to_layout, remove_file_combobox_from_layout
\* and set_num_data_items calls following construction, file_comboboxes and file_checkboxes
\* have the same length n, form-layout row k (0 <= k < n) holds file combobox k and the
\* category row is row n, the last; a remove_file_combobox_from_layout that removes a row
\* removes the row of the last file combobox and leaves the category row.
C21_RowsMatchComboboxes ==
    /\ [] RowsMatchComboboxes(dataselectiongroupbox)
    /\ [][(groupbox_call'.op = "remove_file_combobox_from_layout" /\ groupbox_call'.ret = "None")
            => LET gb == dataselectiongroupbox
                   n == Len(gb.file_comboboxes)
               IN  /\ n > 0
                   /\ gb.form_layout[n].field = <<"hbox", gb.file_comboboxes[n].id>>
                   /\ dataselectiongroupbox'.form_layout
                          = SubSeq(gb.form_layout, 1, n - 1) \o <<CategoryRow>>]_vars

\* three file comboboxes, of which remove_file_combobox_from_layout took the last away
C21_Witness ==
    /\ groupbox_call.op = "remove_file_combobox_from_layout"
    /\ groupbox_call.before = 3
    /\ groupbox_call.ret = "None"
    /\ Len(dataselectiongroupbox.file_comboboxes) = 2
    /\ dataselectiongroupbox.form_layout[3] = CategoryRow

\* the (description, name) items of the data sources loaded, in the order they were loaded
ItemsLoaded == [k \in 1..Len(sources_loaded) |->
                  <<sources_loaded[k].description, sources_loaded[k].name>>]

\* every file combobox holds the ordered items of the first combobox
SameItemsAsFirst ==
    \A k \in 1..Len(dataselectiongroupbox.file_comboboxes) :
        dataselectiongroupbox.file_comboboxes[k].items
            = dataselectiongroupbox.file_comboboxes[1].items

\* C22 as stated: after any sequence of add_file_to_comboboxes and set_num_data_items calls
\* following construction, every file combobox holds the same ordered list of
\* (description, name) items as the first combobox, so every source loaded is selectable in
\* every combobox.
C22_EverySourceInEveryCombobox ==
    /\ SameItemsAsFirst
    /\ \A k \in 1..Len(dataselectiongroupbox.file_comboboxes) :
          \A i \in 1..Len(ItemsLoaded) :
              \E j \in 1..Len(dataselectiongroupbox.file_comboboxes[k].items) :
                  dataselectiongroupbox.file_comboboxes[k].items[j] = ItemsLoaded[i]

====
